---------------------------- MODULE Spec2Model ----------------------------
(***************************************************************************)
(* Model of smsparser.py (SMS-Tool-Kit): the TPDU field decoders, the      *)
(* offset-scanning Parser, the Filter pipeline and the row projection.     *)
(*                                                                         *)
(* Conventions.  A byte is an integer in 0..255 and a byte string is a     *)
(* sequence of bytes.  A text string is the sequence of its code points    *)
(* ("+" is 43, "0".."9" are 48..57).  Python indices are 0-based: At and   *)
(* Slice translate them.  A value that may be None is a record             *)
(* [some, val]; NoneInt and NoneStr are the two shapes of None.            *)
(* The script is Python 2: "/" on integers is floor division, and the      *)
(* booleans False and True are the integers 0 and 1.                       *)
(***************************************************************************)
EXTENDS Integers, Sequences, FiniteSets, TLC

VARIABLES
    image_string,    \* the loaded binary image (global image_string)
    build,           \* the interpreter build: byte order and unicode width
    last_percent,    \* global last_percent of charging_bar
    pc,              \* position of the session: idle, parse, done, raised
    todo,            \* parsers still to run in parse()/parser_run, current first
    i,               \* loop index of the running Parser.parse
    res,             \* local list "res" of the running Parser.parse
    acc,             \* list "res" accumulated by parse()/parser_run
    scan_result,     \* global scan_result
    filter_result,   \* global filter_result
    selected_filters,\* global selected_filters
    selected_parsers,\* global selected_parsers
    rows,            \* rows appended by export_excel, one per exported sms
    user_args,       \* the command main() last read: its name and its numbers
    ts,              \* a 7-byte time block given to the date decoders
    ts_date,         \* result of str_to_date(ts, check=True)
    ts_utc,          \* result of str_to_date_utc(ts)
    nib_string,      \* a semi-octet byte string given to nibble_to_str
    nib_out,         \* result of nibble_to_str(nib_string)
    gsm_string,      \* a byte string given to gsm7_decode
    gsm_out          \* result of gsm7_decode(gsm_string)

vars == <<image_string, build, last_percent, pc, todo, i, res, acc,
          scan_result, filter_result, selected_filters,
          selected_parsers, rows, user_args, ts, ts_date, ts_utc,
          nib_string, nib_out, gsm_string, gsm_out>>

\* The variables of the decoders run on their own.
decoderVars == <<ts, ts_date, ts_utc, nib_string, nib_out,
                 gsm_string, gsm_out>>

---------------------------------------------------------------------------
(* Python values *)

NoneInt == [some |-> FALSE, val |-> 0]
NoneStr == [some |-> FALSE, val |-> << >>]
Some(v) == [some |-> TRUE, val |-> v]

\* Truth value of an optional string: neither None nor empty.
Truthy(o) == o.some /\ o.val # << >>

At(s, ind) == s[ind + 1]

\* s[a:b] for 0 <= a, with the end clamped to len(s).
Slice(s, a, b) ==
    LET e == IF b > Len(s) THEN Len(s) ELSE b
    IN  IF a >= e THEN << >> ELSE SubSeq(s, a + 1, e)

RECURSIVE Pow2(_)
Pow2(n) == IF n = 0 THEN 1 ELSE 2 * Pow2(n - 1)

DigitChar(d) == 48 + d
\* one lowercase hexadecimal digit, as "{0:x}" and hex() print it
HexChar(d) == IF d < 10 THEN 48 + d ELSE 87 + d

S_Unknown == <<85, 110, 107, 110, 111, 119, 110>>
S_Sent == <<83, 101, 110, 116>>
S_Received == <<82, 101, 99, 101, 105, 118, 101, 100>>

IsDigits(s) == s # << >> /\ \A k \in 1..Len(s) : s[k] \in 48..57

RECURSIVE DecValue(_)
DecValue(s) == IF s = << >> THEN 0
               ELSE 10 * DecValue(SubSeq(s, 1, Len(s) - 1)) + (s[Len(s)] - 48)

\* int(s): the value, or None where int() raises (None argument, no digits,
\* a character that is no decimal digit).
IntOf(o) == IF o.some /\ IsDigits(o.val) THEN Some(DecValue(o.val)) ELSE NoneInt

---------------------------------------------------------------------------
(* Codes and constants of the TPDU format *)

ERROR == -1
MTI_DELIVER == 0
MTI_SUBMIT == 1
TON_INTERNATIONAL == 1
DCS_GSM7 == {0, 1, 2, 3}
DCS_ASCII8 == {4, 5, 6, 7}
DCS_UCS2 == {8, 9, 10, 11}
VPF_NO == 0
VPF_ENHANCED == 1
VPF_RELATIVE == 2
VPF_ABSOLUTE == 3

---------------------------------------------------------------------------
(* Utility functions *)

\* The loop of nibble_to_str emitting the high nibble of a byte before its
\* low nibble.
RECURSIVE NibbleLoop_high_first(_, _, _)
NibbleLoop_high_first(bytes, r, seen) ==
    IF bytes = << >> THEN Some(r)
    ELSE LET low  == Head(bytes) % 16
             high == Head(bytes) \div 16
         IN  IF seen THEN NoneStr
             ELSE IF low > 9 THEN NoneStr
             ELSE IF high > 9
                  THEN NibbleLoop_high_first(Tail(bytes),
                                             Append(r, DigitChar(low)), TRUE)
                  ELSE NibbleLoop_high_first(
                           Tail(bytes),
                           r \o <<DigitChar(high), DigitChar(low)>>, FALSE)

\* nibble_to_str(nibble_string, number=True): the loop state is
\* (res, seen_non_decimal); the result is None or the digit string.
RECURSIVE NibbleLoop(_, _, _)
NibbleLoop(bytes, r, seen) ==
    IF bytes = << >> THEN Some(r)
    ELSE LET low  == Head(bytes) % 16
             high == Head(bytes) \div 16
         IN  IF seen THEN NoneStr
             ELSE IF low > 9 THEN NoneStr
             ELSE IF high > 9
                  THEN NibbleLoop(Tail(bytes), Append(r, DigitChar(low)), TRUE)
                  ELSE NibbleLoop(Tail(bytes),
                                  r \o <<DigitChar(low), DigitChar(high)>>, FALSE)

nibble_to_str(nibble_string) == NibbleLoop(nibble_string, << >>, FALSE)

\* int("{0:02x}".format(b & 0b11110111)[::-1], 16): bit 3 cleared, the two
\* hexadecimal digits swapped, read in base 16.
ZoneQuarters(b) ==
    LET m == b - 8 * ((b \div 8) % 2)
    IN  16 * (m % 16) + (m \div 16)

ZoneSignNegative(b) == (b \div 8) % 2 = 1

\* "{0:02x}".format(n) for 0 <= n <= 255
Hex02(n) == <<HexChar(n \div 16), HexChar(n % 16)>>

\* "{0:02d}".format(n): at least two digits, a minus sign counted in the width
RECURSIVE DecStr(_)
DecStr(n) == IF n < 10 THEN <<DigitChar(n)>>
             ELSE Append(DecStr(n \div 10), DigitChar(n % 10))

Dec02(n) == IF n < 0 THEN <<45>> \o DecStr(-n)
            ELSE IF n < 10 THEN <<48, DigitChar(n)>>
            ELSE DecStr(n)

\* str_to_date(string, check=True) on a block of at least 7 bytes.  Every
\* exception (int(None), str + None, int of a non-decimal zone) is caught
\* and gives None.
str_to_date(string) ==
    LET day     == nibble_to_str(<<At(string, 2)>>)
        month   == nibble_to_str(<<At(string, 1)>>)
        year    == nibble_to_str(<<At(string, 0)>>)
        hour    == nibble_to_str(<<At(string, 3)>>)
        minutes == nibble_to_str(<<At(string, 4)>>)
        seconds == nibble_to_str(<<At(string, 5)>>)
        sign    == IF ZoneSignNegative(At(string, 6)) THEN 45 ELSE 43
        zone    == Hex02(ZoneQuarters(At(string, 6)) \div 4)
    IN  IF Len(string) < 7 THEN NoneStr
        ELSE IF ~ (day.some /\ month.some /\ year.some /\ hour.some
                   /\ minutes.some /\ seconds.some) THEN NoneStr
        ELSE
          LET century == IF IntOf(year).val > 50 THEN <<49, 57>> ELSE <<50, 48>>
              date == day.val \o <<47>> \o month.val \o <<47>> \o century
                      \o year.val \o <<32>> \o hour.val \o <<58>> \o minutes.val
                      \o <<58>> \o seconds.val
                      \o <<32, 40, 85, 84, 67, sign>> \o zone \o <<41>>
              d  == IntOf(day).val
              mo == IntOf(month).val
              h  == IntOf(hour).val
              mi == IntOf(minutes).val
              s  == IntOf(seconds).val
              z  == IntOf(Some(zone))
          IN  IF ~ z.some THEN NoneStr
              ELSE IF d > 31 \/ mo > 12 \/ h > 23 \/ mi > 59 \/ s > 59
                      \/ z.val > 24 \/ d < 1 \/ mo < 1 \/ h < 0 \/ mi < 0
                      \/ s < 0 \/ z.val < 0
                   THEN NoneStr
                   ELSE Some(date)

IsLeap(year) == year % 400 = 0 \/ (year % 4 = 0 /\ year % 100 # 0)

\* The "Adjusting time" block of str_to_date_utc: the fields after the
\* zone has been subtracted from the hour.
AdjustTime(day, month, year, hour0, zone) ==
    LET hour == hour0 - zone
    IN  IF hour < 0 THEN
            LET h1 == 24 - hour
                d1 == day - 1
            IN  IF d1 < 1 THEN
                    IF month \in {5, 7, 10, 12}
                        THEN [day |-> 30, month |-> month - 1, year |-> year, hour |-> h1]
                    ELSE IF month \in {2, 4, 6, 8, 9, 11}
                        THEN [day |-> 31, month |-> month - 1, year |-> year, hour |-> h1]
                    ELSE IF month = 3
                        THEN [day |-> IF IsLeap(year) THEN 29 ELSE 28,
                              month |-> 2, year |-> year, hour |-> h1]
                    ELSE IF month = 1
                        THEN [day |-> 31, month |-> 12, year |-> year - 1, hour |-> h1]
                    ELSE [day |-> d1, month |-> month, year |-> year, hour |-> h1]
                ELSE [day |-> d1, month |-> month, year |-> year, hour |-> h1]
        ELSE IF hour > 23 THEN
            LET h1 == hour - 24
                d1 == day + 1
            IN  IF month \in {1, 3, 5, 7, 8, 10, 12} THEN
                    IF d1 > 31
                        THEN [day |-> d1 - 31, month |-> month + (1 % 12),
                              year |-> year, hour |-> h1]
                        ELSE [day |-> d1, month |-> month, year |-> year, hour |-> h1]
                ELSE IF month \in {4, 6, 9, 11} THEN
                    IF d1 > 31
                        THEN [day |-> d1 - 30, month |-> month + 1,
                              year |-> year, hour |-> h1]
                        ELSE [day |-> d1, month |-> month, year |-> year, hour |-> h1]
                ELSE IF month = 2 THEN
                    LET limit == IF IsLeap(year) THEN 29 ELSE 28
                    IN  IF d1 > limit
                        THEN [day |-> d1 - limit, month |-> 3, year |-> year, hour |-> h1]
                        ELSE [day |-> d1, month |-> month, year |-> year, hour |-> h1]
                ELSE [day |-> d1, month |-> month, year |-> year, hour |-> h1]
        ELSE [day |-> day, month |-> month, year |-> year, hour |-> hour]

\* str_to_date_utc(string, check=True) on a block of at least 7 bytes; the
\* bare except turns every exception into None.
str_to_date_utc(string) ==
    LET day     == IntOf(nibble_to_str(<<At(string, 2)>>))
        month   == IntOf(nibble_to_str(<<At(string, 1)>>))
        year    == IntOf(nibble_to_str(<<At(string, 0)>>))
        hour    == IntOf(nibble_to_str(<<At(string, 3)>>))
        minutes == IntOf(nibble_to_str(<<At(string, 4)>>))
        seconds == IntOf(nibble_to_str(<<At(string, 5)>>))
        sign    == IF ZoneSignNegative(At(string, 6)) THEN -1 ELSE 1
        zone    == (sign * ZoneQuarters(At(string, 6))) \div 4
    IN  IF Len(string) < 7 THEN NoneStr
        ELSE IF ~ (day.some /\ month.some /\ year.some /\ hour.some
                   /\ minutes.some /\ seconds.some) THEN NoneStr
        ELSE
          LET a == AdjustTime(day.val, month.val, year.val, hour.val, zone)
              date == Dec02(a.day) \o <<45>> \o Dec02(a.month) \o <<45>>
                      \o Dec02(a.year) \o <<32>> \o Dec02(a.hour) \o <<58>>
                      \o Dec02(minutes.val) \o <<58>> \o Dec02(seconds.val)
          IN  IF a.day > 31 \/ a.month > 12 \/ a.hour > 23 \/ minutes.val > 59
                 \/ seconds.val > 59 \/ a.day < 1 \/ a.month < 1 \/ a.hour < 0
                 \/ minutes.val < 0 \/ seconds.val < 0
              THEN NoneStr
              ELSE Some(date)

\* Bit p of the least-significant-bit-first bit stream of a byte string.
StreamBit(string, p) == (At(string, p \div 8) \div Pow2(p % 8)) % 2

RECURSIVE ChunkValue(_, _, _)
ChunkValue(string, start, n) ==
    IF n = 0 THEN 0
    ELSE ChunkValue(string, start, n - 1)
         + StreamBit(string, start + n - 1) * Pow2(n - 1)

\* gsm7_decode(string): one character per chunk f[::-1][i:i+7], i = 0, 7, ...
\* below len(f) = 8 * len(string); the last chunk holds the bits that are left.
gsm7_decode(string) ==
    LET nbits   == 8 * Len(string)
        nchunks == (nbits + 6) \div 7
    IN  [j \in 1..nchunks |->
            LET start == 7 * (j - 1)
                n == IF nbits - start < 7 THEN nbits - start ELSE 7
            IN  ChunkValue(string, start, n)]

\* bytes.decode('ascii', errors='replace')
RECURSIVE decode_ascii(_)
decode_ascii(bytes) ==
    IF bytes = << >> THEN << >>
    ELSE <<IF Head(bytes) < 128 THEN Head(bytes) ELSE 65533>>
         \o decode_ascii(Tail(bytes))

\* The code units of a UTF-16 byte string after the byte-order mark, decoded
\* with errors='replace': big states the byte order in force, wide the
\* unicode width of the build.
RECURSIVE Utf16Units(_, _, _)
Utf16Units(bytes, big, wide) ==
    IF bytes = << >> THEN << >>
    ELSE IF Len(bytes) < 2 THEN <<65533>>                  \* truncated data
    ELSE LET ch   == IF big THEN 256 * bytes[1] + bytes[2]
                            ELSE 256 * bytes[2] + bytes[1]
             rest == SubSeq(bytes, 3, Len(bytes))
         IN  IF ch < 55296 \/ ch > 57343
                 THEN <<ch>> \o Utf16Units(rest, big, wide)
             ELSE IF Len(rest) < 2 THEN <<65533>>          \* unexpected end of data
             ELSE IF ch <= 56319 THEN
                 LET ch2 == IF big THEN 256 * rest[1] + rest[2]
                                   ELSE 256 * rest[2] + rest[1]
                 IN  IF ch2 >= 56320 /\ ch2 <= 57343
                     THEN (IF wide
                           THEN <<((ch % 1024) * 1024) + (ch2 % 1024) + 65536>>
                           ELSE <<ch, ch2>>)
                          \o Utf16Units(SubSeq(rest, 3, Len(rest)), big, wide)
                     ELSE <<65533>> \o Utf16Units(rest, big, wide)  \* illegal surrogate
             ELSE <<65533>> \o Utf16Units(rest, big, wide)          \* illegal encoding

\* bytes.decode('utf-16', errors='replace'): a leading FF FE selects little
\* endian and FE FF big endian, and is dropped; without one the byte order
\* is the machine's.
decode_utf16(bytes, bld) ==
    IF Len(bytes) >= 2 /\ bytes[1] = 255 /\ bytes[2] = 254
        THEN Utf16Units(SubSeq(bytes, 3, Len(bytes)), FALSE, bld.wide)
    ELSE IF Len(bytes) >= 2 /\ bytes[1] = 254 /\ bytes[2] = 255
        THEN Utf16Units(SubSeq(bytes, 3, Len(bytes)), TRUE, bld.wide)
    ELSE Utf16Units(bytes, bld.byteorder = "big", bld.wide)

---------------------------------------------------------------------------
(* charging_bar *)

\* charging_bar(nb_iter, curr_iter, bar_len, ...): the value of last_percent
\* it leaves, and whether a division raised ZeroDivisionError.  When the
\* second division raises, last_percent has already been assigned.
charging_bar(nb_iter, curr_iter, bar_len, lp) ==
    IF nb_iter = 0 THEN [raised |-> TRUE, last_percent |-> lp]
    ELSE LET percent == (100 * curr_iter) \div nb_iter
         IN  IF curr_iter = nb_iter
                 THEN [raised |-> FALSE, last_percent |-> -1]
             ELSE IF lp # percent
                 THEN [raised |-> nb_iter \div bar_len = 0, last_percent |-> percent]
             ELSE [raised |-> FALSE, last_percent |-> lp]

---------------------------------------------------------------------------
(* SMS classes *)

\* SMSPDU(): every field None.
new_sms ==
    [bin_offset |-> NoneInt, src |-> NoneStr, dst |-> NoneStr, msg |-> NoneStr,
     sms_date |-> NoneStr, date_utc_00 |-> NoneStr, sms_status |-> NoneStr,
     tp_header |-> NoneInt, tp_mr |-> NoneInt, tp_pi |-> NoneInt,
     tp_dcs |-> NoneInt, tp_scts |-> NoneStr, tp_vp |-> NoneStr,
     tp_udl |-> NoneInt, tp_ud |-> NoneStr, addr_len |-> NoneInt]

date(sms) == IF Truthy(sms.sms_date) THEN sms.sms_date.val ELSE S_Unknown

\* "if( self.date_utc )" tests the bound method, which is always true: the
\* field is returned as it is, None included.
date_utc(sms) == sms.date_utc_00

source(sms) == IF Truthy(sms.src) THEN sms.src.val ELSE S_Unknown
dest(sms) == IF Truthy(sms.dst) THEN sms.dst.val ELSE S_Unknown
status(sms) == IF Truthy(sms.sms_status) THEN sms.sms_status.val ELSE S_Unknown
offset(sms) == sms.bin_offset.val
message(sms) == IF Truthy(sms.msg) THEN sms.msg.val ELSE << >>

mti(sms) == sms.tp_header.val % 4
vpf(sms) == (sms.tp_header.val \div 8) % 4
data_format(sms) == sms.tp_dcs.val % 16

RECURSIVE HexDigits(_)
HexDigits(n) == IF n < 16 THEN <<HexChar(n)>>
                ELSE Append(HexDigits(n \div 16), HexChar(n % 16))

\* hex(n) for n >= 0
hex(n) == <<48, 120>> \o HexDigits(n)

remove_control_chars(s) ==
    [k \in 1..Len(s) |->
        IF s[k] \in (0..8) \cup (11..12) \cup (14..31) THEN 32 ELSE s[k]]

\* "self.status == s" in excel_output compares the bound method status with
\* a string: the comparison is false whatever the status is.
status_method_equals(sms, s) == FALSE

\* The "Number" element of excel_output()
excel_number(sms) ==
    IF status_method_equals(sms, S_Received) THEN source(sms)
    ELSE IF status_method_equals(sms, S_Sent) THEN dest(sms)
    ELSE IF Truthy(sms.src) THEN source(sms)
    ELSE IF Truthy(sms.dst) THEN dest(sms)
    ELSE S_Unknown

excel_output(sms) ==
    [offset |-> hex(offset(sms)),
     status |-> status(sms),
     number |-> excel_number(sms),
     data |-> remove_control_chars(message(sms)),
     date |-> date(sms),
     date_utc |-> date_utc(sms)]

---------------------------------------------------------------------------
(* Parsing functions: each gives the value it returns and the sms it leaves *)

Ret(r, sms) == [ret |-> r, sms |-> sms]

parse_pdu_submit_header(img, ind, sms) ==
    IF ind >= Len(img) THEN Ret(ERROR, sms)
    ELSE LET s1 == [sms EXCEPT !.tp_header = Some(At(img, ind))]
         IN  IF mti(s1) # MTI_SUBMIT THEN Ret(ERROR, s1)
             ELSE Ret(1, [s1 EXCEPT !.sms_status = Some(S_Sent)])

parse_pdu_submit_mr(img, ind, sms) ==
    IF ind >= Len(img) THEN Ret(ERROR, sms)
    ELSE Ret(1, [sms EXCEPT !.tp_mr = Some(At(img, ind))])

parse_pdu_pi_dcs(img, ind, sms) ==
    IF ind > Len(img) - 2 THEN Ret(ERROR, sms)
    ELSE Ret(2, [sms EXCEPT !.tp_pi = Some(At(img, ind)),
                            !.tp_dcs = Some(At(img, ind + 1))])

\* parse_pdu_submit_vp decoding the two dates from the validity period
\* before it returns.
parse_pdu_submit_vp_dated(img, ind, sms) ==
    IF vpf(sms) = VPF_ENHANCED \/ vpf(sms) = VPF_ABSOLUTE THEN
        IF ind > Len(img) - 7 THEN Ret(ERROR, sms)
        ELSE LET vp == Slice(img, ind, ind + 7 + 1)
             IN  Ret(7, [sms EXCEPT !.tp_vp = Some(vp),
                                    !.sms_date = str_to_date(vp),
                                    !.date_utc_00 = str_to_date_utc(vp)])
    ELSE IF vpf(sms) = VPF_RELATIVE THEN
        IF ind > Len(img) - 1 THEN Ret(ERROR, sms)
        ELSE Ret(1, [sms EXCEPT !.tp_vp = Some(<<At(img, ind)>>)])
    ELSE Ret(0, sms)

\* The two assignments of the dates stand after "return 7" and never run.
parse_pdu_submit_vp(img, ind, sms) ==
    IF vpf(sms) = VPF_ENHANCED \/ vpf(sms) = VPF_ABSOLUTE THEN
        IF ind > Len(img) - 7 THEN Ret(ERROR, sms)
        ELSE Ret(7, [sms EXCEPT !.tp_vp = Some(Slice(img, ind, ind + 7 + 1))])
    ELSE IF vpf(sms) = VPF_RELATIVE THEN
        IF ind > Len(img) - 1 THEN Ret(ERROR, sms)
        ELSE Ret(1, [sms EXCEPT !.tp_vp = Some(<<At(img, ind)>>)])
    ELSE Ret(0, sms)

\* parse_pdu_addr with the two message types exchanged when the number is
\* stored.
parse_pdu_addr_swapped(img, ind, sms) ==
    LET addr_len == (At(img, ind) + 1) \div 2
        ind1 == ind + 1
        s1 == [sms EXCEPT !.addr_len = Some(addr_len)]
    IN  IF addr_len > 12 THEN Ret(ERROR, sms)
        ELSE IF addr_len = 0 THEN Ret(2, s1)
        ELSE IF ind1 + addr_len > Len(img) THEN Ret(ERROR, s1)
        ELSE LET ton == (At(img, ind1) \div 16) % 8
                 nibbles == Slice(img, ind1 + 1, ind1 + 1 + addr_len)
                 num == nibble_to_str(nibbles)
                 num1 == IF ton = TON_INTERNATIONAL THEN <<43>> \o num.val
                         ELSE num.val
             IN  IF ~ Truthy(num) THEN Ret(ERROR, s1)
                 ELSE IF mti(sms) = MTI_DELIVER
                     THEN Ret(addr_len + 2, [s1 EXCEPT !.dst = Some(num1)])
                 ELSE IF mti(sms) = MTI_SUBMIT
                     THEN Ret(addr_len + 2, [s1 EXCEPT !.src = Some(num1)])
                 ELSE Ret(addr_len + 2, s1)

parse_pdu_addr(img, ind, sms) ==
    LET addr_len == (At(img, ind) + 1) \div 2
        ind1 == ind + 1
        s1 == [sms EXCEPT !.addr_len = Some(addr_len)]
    IN  IF addr_len > 12 THEN Ret(ERROR, sms)
        ELSE IF addr_len = 0 THEN Ret(2, s1)
        ELSE IF ind1 + addr_len > Len(img) THEN Ret(ERROR, s1)
        ELSE LET ton == (At(img, ind1) \div 16) % 8
                 nibbles == Slice(img, ind1 + 1, ind1 + 1 + addr_len)
                 num == nibble_to_str(nibbles)
                 num1 == IF ton = TON_INTERNATIONAL THEN <<43>> \o num.val
                         ELSE num.val
             IN  IF ~ Truthy(num) THEN Ret(ERROR, s1)
                 ELSE IF mti(sms) = MTI_SUBMIT
                     THEN Ret(addr_len + 2, [s1 EXCEPT !.dst = Some(num1)])
                 ELSE IF mti(sms) = MTI_DELIVER
                     THEN Ret(addr_len + 2, [s1 EXCEPT !.src = Some(num1)])
                 ELSE Ret(addr_len + 2, s1)

\* parse_pdu_user_data returns the booleans False and True, that is the
\* integers 0 and 1.
parse_pdu_user_data(img, ind, sms, bld) ==
    IF ind > Len(img) - 1 THEN Ret(0, sms)
    ELSE LET udl == At(img, ind)
             s1 == [sms EXCEPT !.tp_udl = Some(udl)]
             ind1 == ind + 1
         IN  IF udl = 0 THEN Ret(0, s1)
             ELSE IF ind1 > Len(img) - udl THEN Ret(0, s1)
             ELSE LET ud == Slice(img, ind1, ind1 + udl)
                      s2 == [s1 EXCEPT !.tp_ud = Some(ud)]
                  IN  IF data_format(s2) \in DCS_ASCII8
                          THEN Ret(1, [s2 EXCEPT !.msg =
                                   Some(Slice(decode_ascii(ud), 0, udl))])
                      ELSE IF data_format(s2) \in DCS_UCS2
                          THEN Ret(1, [s2 EXCEPT !.msg =
                                   Some(Slice(decode_utf16(ud, bld), 0, udl))])
                      ELSE IF data_format(s2) \in DCS_GSM7
                          THEN Ret(1, [s2 EXCEPT !.msg =
                                   Some(Slice(gsm7_decode(ud), 0, udl))])
                      ELSE Ret(0, s2)

parse_pdu_deliver_header(img, ind, sms) ==
    IF ind >= Len(img) THEN Ret(ERROR, sms)
    ELSE LET s1 == [sms EXCEPT !.tp_header = Some(At(img, ind))]
         IN  IF mti(s1) # MTI_DELIVER THEN Ret(ERROR, s1)
             ELSE Ret(1, [s1 EXCEPT !.sms_status = Some(S_Received)])

parse_pdu_deliver_scts(img, ind, sms) ==
    IF ind > Len(img) - 7 THEN Ret(ERROR, sms)
    ELSE LET scts == Slice(img, ind, ind + 7 + 1)
         IN  Ret(7, [sms EXCEPT !.tp_scts = Some(scts),
                                !.sms_date = str_to_date(scts),
                                !.date_utc_00 = str_to_date_utc(scts)])

\* The registered parsers, by their index in global_parser_refs.
pdu_submit_parser ==
    <<"parse_pdu_submit_header", "parse_pdu_submit_mr", "parse_pdu_addr",
      "parse_pdu_pi_dcs", "parse_pdu_submit_vp", "parse_pdu_user_data">>

pdu_deliver_parser ==
    <<"parse_pdu_deliver_header", "parse_pdu_addr", "parse_pdu_pi_dcs",
      "parse_pdu_deliver_scts", "parse_pdu_user_data">>

parse_functions(num) == IF num = 0 THEN pdu_submit_parser ELSE pdu_deliver_parser

\* func(img, ind, sms) for a parsing function given by name
CallFunc(func, img, ind, sms, bld) ==
    CASE func = "parse_pdu_submit_header" -> parse_pdu_submit_header(img, ind, sms)
      [] func = "parse_pdu_submit_mr" -> parse_pdu_submit_mr(img, ind, sms)
      [] func = "parse_pdu_addr" -> parse_pdu_addr(img, ind, sms)
      [] func = "parse_pdu_pi_dcs" -> parse_pdu_pi_dcs(img, ind, sms)
      [] func = "parse_pdu_submit_vp" -> parse_pdu_submit_vp(img, ind, sms)
      [] func = "parse_pdu_user_data" -> parse_pdu_user_data(img, ind, sms, bld)
      [] func = "parse_pdu_deliver_header" -> parse_pdu_deliver_header(img, ind, sms)
      [] func = "parse_pdu_deliver_scts" -> parse_pdu_deliver_scts(img, ind, sms)

---------------------------------------------------------------------------
(* Parser class *)

\* The result of comparing a parsing function's return value with ERROR.
IsError(parsed_bytes) == parsed_bytes = ERROR

\* The inner loop of Parser.parse over the parsing functions still to run:
\* the sms it leaves, with some = FALSE when sms was set to None.
RECURSIVE RunFuncs(_, _, _, _, _, _)
RunFuncs(funcs, img, ii, off, sms, bld) ==
    IF funcs = << >> THEN Some(sms)
    ELSE IF ii + off >= Len(img) THEN [some |-> FALSE, val |-> new_sms]
    ELSE LET r == CallFunc(Head(funcs), img, ii + off, sms, bld)
         IN  IF IsError(r.ret) THEN [some |-> FALSE, val |-> new_sms]
             ELSE RunFuncs(Tail(funcs), img, ii, off + r.ret, r.sms, bld)

\* One attempt of Parser.parse at offset ii: a fresh sms tagged with ii.
Attempt(funcs, img, ii, bld) ==
    RunFuncs(funcs, img, ii, 0, [new_sms EXCEPT !.bin_offset = Some(ii)], bld)

---------------------------------------------------------------------------
(* Filter class and filtering functions *)

\* LanguageSymbolSignature([(0x20, 0x7f), (0xc0, 0x17f)]).belongs(char)
belongs(char) == (char >= 32 /\ char <= 127) \/ (char >= 192 /\ char <= 383)

\* filter_lang_latin: float(yes)/float(len) > 0.92, compared exactly.
filter_lang_latin(sms) ==
    LET m == message(sms)
        yes == Cardinality({k \in 1..Len(m) : belongs(m[k])})
    IN  IF Len(m) = 0 THEN FALSE
        ELSE 100 * yes > 92 * Len(m)

filter_date(sms) == sms.sms_date.some

CallFilter(func, sms) ==
    CASE func = "filter_lang_latin" -> filter_lang_latin(sms)
      [] func = "filter_date" -> filter_date(sms)

\* The list filtered by removing from it while iterating over it: the
\* element that follows a removed one is never tested.
RECURSIVE RemoveWhileIterating(_, _, _)
RemoveWhileIterating(func, tmp, idx) ==
    IF idx > Len(tmp) THEN tmp
    ELSE IF CallFilter(func, tmp[idx])
        THEN RemoveWhileIterating(func, tmp, idx + 1)
        ELSE RemoveWhileIterating(
                 func, SubSeq(tmp, 1, idx - 1) \o SubSeq(tmp, idx + 1, Len(tmp)),
                 idx + 1)

Comprehension_in_place(func, tmp) == RemoveWhileIterating(func, tmp, 1)

\* tmp = [sms for sms in tmp if func(sms)]
Comprehension(func, tmp) == SelectSeq(tmp, LAMBDA sms : CallFilter(func, sms))

\* Filter.filter returning from inside its loop, after the first function.
Filter_filter_first(func_list, sms_list) ==
    IF func_list = << >> THEN sms_list
    ELSE Comprehension(Head(func_list), sms_list)

\* Filter.filter(sms_list) of a filter whose filter_functions is func_list
RECURSIVE Filter_filter(_, _)
Filter_filter(func_list, sms_list) ==
    IF func_list = << >> THEN sms_list
    ELSE Filter_filter(Tail(func_list), Comprehension(Head(func_list), sms_list))

\* filter_sms(filter_list, sms_list)
RECURSIVE filter_sms(_, _)
filter_sms(filter_list, sms_list) ==
    IF filter_list = << >> THEN sms_list
    ELSE filter_sms(Tail(filter_list), Comprehension(Head(filter_list), sms_list))

pdu_filter_classical == <<"filter_lang_latin", "filter_date">>

\* global_filter_refs, indexed from 0
global_filter_refs == <<pdu_filter_classical>>

\* The loop of filter_select over its arguments: the filter_result and the
\* selected_filters it leaves.
RECURSIVE FilterSelectLoop(_, _, _)
FilterSelectLoop(filter_numbers, fr, sel) ==
    IF filter_numbers = << >> THEN [filter_result |-> fr, selected |-> sel]
    ELSE LET num == Head(filter_numbers)
         IN  IF num >= Len(global_filter_refs)
             THEN FilterSelectLoop(Tail(filter_numbers), fr, sel)
             ELSE FilterSelectLoop(Tail(filter_numbers),
                                   Filter_filter(At(global_filter_refs, num), fr),
                                   Append(sel, num))

\* list(set(l)) for a list of small integers: its members, ascending.
RECURSIVE SortedList(_)
SortedList(S) ==
    IF S = {} THEN << >>
    ELSE LET m == CHOOSE x \in S : \A y \in S : x <= y
         IN  <<m>> \o SortedList(S \ {m})

ListOfSet(l) == SortedList({l[k] : k \in 1..Len(l)})

---------------------------------------------------------------------------
(* Inputs: the images a session may load *)

MaxPad == 2        \* filler bytes before a TPDU: 0..MaxPad
MaxTail == 2       \* filler bytes after a TPDU: 0..MaxTail
MaxSeptets == 8    \* septets of 7-bit text in a TPDU: 1..MaxSeptets
MaxZeros == 23     \* length of an all-zero image: 0..MaxZeros

\* n bytes 0xFF: no TPDU header (the message type is neither SUBMIT nor
\* DELIVER) and no address length.
Pad(n) == [k \in 1..n |-> 255]
Zeros(n) == [k \in 1..n |-> 0]

\* Decimal digits packed two per byte, first digit in the low nibble, an odd
\* count filled with 0xF.
RECURSIVE PackDigits(_)
PackDigits(d) ==
    IF d = << >> THEN << >>
    ELSE IF Len(d) = 1 THEN <<d[1] + 16 * 15>>
    ELSE <<d[1] + 16 * d[2]>> \o PackDigits(SubSeq(d, 3, Len(d)))

\* Septets packed into bytes, least significant bits first, zero filled.
SeptetBit(septets, p) ==
    IF p \div 7 < Len(septets)
    THEN (septets[(p \div 7) + 1] \div Pow2(p % 7)) % 2 ELSE 0

RECURSIVE PackByte(_, _, _)
PackByte(septets, j, n) ==
    IF n = 0 THEN 0
    ELSE PackByte(septets, j, n - 1)
         + SeptetBit(septets, 8 * j + n - 1) * Pow2(n - 1)

Pack7(septets) ==
    [j \in 1..((7 * Len(septets) + 7) \div 8) |-> PackByte(septets, j - 1, 8)]

\* "HELLOWORLDHELLO..." cut to n characters
Text(n) == [k \in 1..n |-> <<72, 69, 76, 76, 79, 87, 79, 82, 76, 68>>[((k - 1) % 10) + 1]]

\* Address fields: digit count, type-of-address byte, packed digits.
AddrIntl == <<11, 145>> \o PackDigits(<<3, 3, 6, 1, 2, 3, 4, 5, 6, 7, 8>>)
AddrNational == <<4, 161>> \o PackDigits(<<0, 6, 1, 2>>)
AddrEmpty == <<0, 145>>
S_Number == <<43, 51, 51, 54, 49, 50, 51, 52, 53, 54, 55, 56>>  \* "+33612345678"

\* Time blocks: 10 January 2021 12:30:45, one hour east of UTC; the same at
\* 00:30:45; a block whose month reads 13.
TsValid == <<18, 16, 1, 33, 3, 84, 64>>
TsMidnight == <<18, 16, 1, 0, 3, 84, 64>>
TsBadMonth == <<18, 49, 1, 33, 3, 84, 64>>

Deliver(addr, dcs, scts, udl, ud) ==
    <<4>> \o addr \o <<0, dcs>> \o scts \o <<udl>> \o ud

Submit(vpfield, addr, dcs, vp, udl, ud) ==
    <<1 + 8 * vpfield, 7>> \o addr \o <<0, dcs>> \o vp \o <<udl>> \o ud

\* The well-formed DELIVER TPDU carrying n septets of 7-bit text.
DeliverText(n) == Deliver(AddrIntl, 0, TsValid, n, Pack7(Text(n)))

TextTPDUs == {DeliverText(n) : n \in 1..MaxSeptets}

OtherTPDUs ==
    { Deliver(AddrIntl, 4, TsValid, 3, <<72, 105, 200>>),
      Deliver(AddrNational, 4, TsMidnight, 5, <<72, 69, 76, 76, 79>>),
      Deliver(AddrIntl, 8, TsValid, 4, <<0, 72, 0, 105>>),
      Deliver(AddrIntl, 8, TsValid, 6, <<255, 254, 72, 0, 105, 0>>),
      Deliver(AddrIntl, 9, TsValid, 2, <<254, 255>>),
      Deliver(AddrIntl, 8, TsValid, 5, <<216, 61, 222, 0, 65>>),
      Deliver(AddrIntl, 12, TsValid, 5, Pack7(Text(5))),
      Deliver(AddrIntl, 0, TsBadMonth, 5, Pack7(Text(5))),
      Deliver(AddrEmpty, 0, TsValid, 5, Pack7(Text(5))),
      Deliver(AddrIntl, 0, TsValid, 0, << >>),
      Deliver(AddrIntl, 0, TsValid, 3, Pack7(<<72, 1, 2>>)),
      Submit(0, AddrIntl, 0, << >>, 5, Pack7(Text(5))),
      Submit(1, AddrNational, 4, TsValid, 2, <<72, 105>>),
      Submit(2, AddrIntl, 0, <<170>>, 5, Pack7(Text(5))),
      Submit(3, AddrIntl, 15, TsValid, 5, Pack7(Text(5))),
      Submit(0, AddrEmpty, 0, << >>, 5, Pack7(Text(5))),
      Submit(2, AddrIntl, 0, <<170>>, 0, << >>) }

Images ==
    { Pad(k) \o t \o Pad(tl) :
        k \in 0..MaxPad, t \in TextTPDUs \cup OtherTPDUs, tl \in 0..MaxTail }
    \cup { Zeros(n) : n \in 0..MaxZeros }

\* The interpreter builds: sys.byteorder and the width of a unicode character.
Builds ==
    { [byteorder |-> "little", wide |-> TRUE],
      [byteorder |-> "little", wide |-> FALSE],
      [byteorder |-> "big", wide |-> TRUE] }

\* Arguments of the parser-run and filter-apply commands, as numbers.
ParserArgs == { <<0>>, <<1>>, <<0, 1>>, <<1, 2>> }
FilterArgs == { << >>, <<0>>, <<0, 0>>, <<1>> }

\* len(global_parser_refs)
NbParsers == 2

---------------------------------------------------------------------------
(* The session *)

Init ==
    /\ image_string \in Images
    /\ build \in Builds
    /\ last_percent = -1
    /\ pc = "idle"
    /\ todo = << >>
    /\ i = 0
    /\ res = << >>
    /\ acc = << >>
    /\ scan_result = << >>
    /\ filter_result = << >>
    /\ selected_filters = << >>
    /\ selected_parsers = << >>
    /\ rows = << >>
    /\ user_args = [cmd |-> "", args |-> << >>]
    /\ ts = << >>
    /\ ts_date = NoneStr
    /\ ts_utc = NoneStr
    /\ nib_string = << >>
    /\ nib_out = NoneStr
    /\ gsm_string = << >>
    /\ gsm_out = << >>

\* The end of parser_run once no parser is left to run.
FinishRun(sel, result) ==
    /\ selected_parsers' = ListOfSet(sel)
    /\ scan_result' = result
    /\ filter_result' = result
    /\ pc' = "done"

\* parser_run(parser_numbers) up to the first call of Parser.parse: invalid
\* numbers are ignored, and nothing runs on an empty image.
ParserRun(parser_numbers) ==
    /\ pc = "idle"
    /\ LET valid == SelectSeq(parser_numbers, LAMBDA num : num < NbParsers)
       IN  IF image_string = << >>
           THEN /\ selected_parsers' = << >>
                /\ UNCHANGED <<pc, todo, scan_result, filter_result>>
           ELSE IF valid = << >>
           THEN /\ FinishRun(<< >>, << >>)
                /\ todo' = << >>
           ELSE /\ todo' = valid
                /\ selected_parsers' = << >>
                /\ pc' = "parse"
                /\ UNCHANGED <<scan_result, filter_result>>
    /\ i' = 0
    /\ res' = << >>
    /\ acc' = << >>
    /\ user_args' = [cmd |-> "parser-run", args |-> parser_numbers]
    /\ UNCHANGED <<image_string, build, last_percent, selected_filters, rows,
                   decoderVars>>

\* One iteration of the loop of Parser.parse, at offset i.
ParseOffset ==
    /\ pc = "parse"
    /\ i < Len(image_string)
    /\ LET bar == charging_bar(Len(image_string) - 1, i, 20, last_percent)
           sms == Attempt(parse_functions(Head(todo)), image_string, i, build)
       IN  /\ last_percent' = bar.last_percent
           /\ IF bar.raised
              THEN /\ pc' = "raised"
                   /\ UNCHANGED <<i, res>>
              ELSE /\ pc' = pc
                   /\ i' = i + 1
                   /\ res' = IF sms.some THEN Append(res, sms.val) ELSE res
    /\ UNCHANGED <<image_string, build, todo, acc, scan_result, filter_result,
                   selected_filters, selected_parsers, rows, user_args,
                   decoderVars>>

\* Parser.parse returns res: parser_run adds it to its list and goes on to
\* the next parser, or ends.
ParseReturn ==
    /\ pc = "parse"
    /\ i >= Len(image_string)
    /\ acc' = acc \o res
    /\ todo' = Tail(todo)
    /\ i' = 0
    /\ res' = << >>
    /\ IF Tail(todo) = << >>
       THEN FinishRun(Append(selected_parsers, Head(todo)), acc \o res)
       ELSE /\ selected_parsers' = Append(selected_parsers, Head(todo))
            /\ UNCHANGED <<pc, scan_result, filter_result>>
    /\ UNCHANGED <<image_string, build, last_percent, selected_filters, rows,
                   user_args, decoderVars>>

\* filter_select(filter_numbers)
FilterSelect(filter_numbers) ==
    /\ pc = "done"
    /\ IF Len(filter_numbers) = 0 \/ Len(scan_result) = 0
       THEN /\ filter_result' = scan_result
            /\ selected_filters' = << >>
       ELSE LET r == FilterSelectLoop(filter_numbers, scan_result, << >>)
            IN  /\ filter_result' = r.filter_result
                /\ selected_filters' = ListOfSet(r.selected)
    /\ user_args' = [cmd |-> "filter-apply", args |-> filter_numbers]
    /\ UNCHANGED <<image_string, build, last_percent, pc, todo, i, res, acc,
                   scan_result, selected_parsers, rows, decoderVars>>

\* export_excel(filename): one row per sms of filter_result
ExportExcel ==
    /\ pc = "done"
    /\ rows' = [k \in 1..Len(filter_result) |-> excel_output(filter_result[k])]
    /\ user_args' = [cmd |-> "export-excel", args |-> << >>]
    /\ UNCHANGED <<image_string, build, last_percent, pc, todo, i, res, acc,
                   scan_result, filter_result, selected_filters,
                   selected_parsers, decoderVars>>

Next ==
    \/ \E parser_numbers \in ParserArgs : ParserRun(parser_numbers)
    \/ ParseOffset
    \/ ParseReturn
    \/ \E filter_numbers \in FilterArgs : FilterSelect(filter_numbers)
    \/ ExportExcel

Spec == Init /\ [][Next]_vars

---------------------------------------------------------------------------
(* The date decoders on their own *)

\* Bytes of a time block: two-digit fields at and around the limits of their
\* ranges, one-digit fields (high nibble 0xF) and fields with no digits.
YearBytes == {0, 18, 21, 10}
MonthBytes == {0, 16, 32, 33, 49, 241, 26}
DayBytes == {0, 16, 19, 35, 130}
HourBytes == {0, 50, 66}
MinuteBytes == {3, 149, 6}
SecondBytes == {0, 6}
ZoneBytes == {0, 64, 72, 33, 128, 160, 70, 151}

TimeBlocks ==
    { <<y, mo, d, h, mi, s, z>> :
        y \in YearBytes, mo \in MonthBytes, d \in DayBytes, h \in HourBytes,
        mi \in MinuteBytes, s \in SecondBytes, z \in ZoneBytes }
    \cup { <<18, 16, 1, h, 3, 84, z>> : h \in HourBytes, z \in 0..255 }

InitDate ==
    /\ ts \in TimeBlocks
    /\ ts_date = NoneStr
    /\ ts_utc = NoneStr
    /\ pc = "ts_idle"
    /\ image_string = << >>
    /\ build \in {[byteorder |-> "little", wide |-> TRUE]}
    /\ last_percent = -1
    /\ todo = << >>
    /\ i = 0
    /\ res = << >>
    /\ acc = << >>
    /\ scan_result = << >>
    /\ filter_result = << >>
    /\ selected_filters = << >>
    /\ selected_parsers = << >>
    /\ rows = << >>
    /\ user_args = [cmd |-> "", args |-> << >>]
    /\ nib_string = << >>
    /\ nib_out = NoneStr
    /\ gsm_string = << >>
    /\ gsm_out = << >>

\* sms.sms_date = str_to_date(block, check=True) and
\* sms.date_utc_00 = str_to_date_utc(block), as parse_pdu_deliver_scts calls them
DecodeDate ==
    /\ pc = "ts_idle"
    /\ ts_date' = str_to_date(ts)
    /\ ts_utc' = str_to_date_utc(ts)
    /\ pc' = "ts_done"
    /\ UNCHANGED <<image_string, build, last_percent, todo, i, res, acc,
                   scan_result, filter_result, selected_filters,
                   selected_parsers, rows, user_args, ts,
                   nib_string, nib_out, gsm_string, gsm_out>>

NextDate == DecodeDate

SpecDate == InitDate /\ [][NextDate]_vars

---------------------------------------------------------------------------
(* nibble_to_str on its own *)

MaxDigits == 5     \* digits of a packed number: 0..MaxDigits
MaxBytes == 3      \* bytes of a semi-octet string: 0..MaxBytes

\* Every sequence of at most n elements of S.
RECURSIVE SeqsUpTo(_, _)
SeqsUpTo(S, n) ==
    IF n = 0 THEN {<< >>}
    ELSE LET T == SeqsUpTo(S, n - 1)
         IN  T \cup {Append(t, x) : t \in {u \in T : Len(u) = n - 1}, x \in S}

\* Digit strings, as sequences of digit values: the short ones over three
\* digits, and the numbers of 15 and 16 digits.
DigitStrings ==
    SeqsUpTo({0, 3, 9}, MaxDigits)
    \cup { <<1, 2, 3, 4, 5, 6, 7, 8, 9, 0, 1, 2, 3, 4, 5>>,
           <<9, 8, 7, 6, 5, 4, 3, 2, 1, 0, 9, 8, 7, 6, 5, 4>> }

\* Bytes 0x21, 0x90 (two digits), 0xF3, 0xA0 (no digit in the high nibble),
\* 0x3A (no digit in the low nibble) and 0xFF.
SemiOctetBytes == {33, 144, 243, 160, 58, 255}

SemiOctetStrings ==
    {PackDigits(d) : d \in DigitStrings} \cup SeqsUpTo(SemiOctetBytes, MaxBytes)

\* The session as it is when no command has run and no image is loaded.
NoSession ==
    /\ image_string = << >>
    /\ build \in {[byteorder |-> "little", wide |-> TRUE]}
    /\ last_percent = -1
    /\ todo = << >>
    /\ i = 0
    /\ res = << >>
    /\ acc = << >>
    /\ scan_result = << >>
    /\ filter_result = << >>
    /\ selected_filters = << >>
    /\ selected_parsers = << >>
    /\ rows = << >>
    /\ user_args = [cmd |-> "", args |-> << >>]

sessionVars == <<image_string, build, last_percent, todo, i, res, acc,
                 scan_result, filter_result, selected_filters,
                 selected_parsers, rows, user_args>>

InitNibble ==
    /\ nib_string \in SemiOctetStrings
    /\ nib_out = NoneStr
    /\ pc = "nib_idle"
    /\ NoSession
    /\ ts = << >>
    /\ ts_date = NoneStr
    /\ ts_utc = NoneStr
    /\ gsm_string = << >>
    /\ gsm_out = << >>

\* num = nibble_to_str(nibbles), as parse_pdu_addr calls it
DecodeNibbles ==
    /\ pc = "nib_idle"
    /\ nib_out' = nibble_to_str(nib_string)
    /\ pc' = "nib_done"
    /\ UNCHANGED <<sessionVars, ts, ts_date, ts_utc, nib_string,
                   gsm_string, gsm_out>>

NextNibble == DecodeNibbles

SpecNibble == InitNibble /\ [][NextNibble]_vars

---------------------------------------------------------------------------
(* gsm7_decode on its own *)

MaxGsmLen == 3     \* bytes of a packed 7-bit string: 0..MaxGsmLen

\* Bytes 0x00, 0x55, 0xC8 and 0xFF.
GsmBytes == {0, 85, 200, 255}

\* Short byte strings, and the packings of 1..MaxSeptets septets of text
\* (8 septets fill 7 bytes).
GsmStrings ==
    SeqsUpTo(GsmBytes, MaxGsmLen) \cup {Pack7(Text(n)) : n \in 1..MaxSeptets}

InitGsm7 ==
    /\ gsm_string \in GsmStrings
    /\ gsm_out = << >>
    /\ pc = "gsm_idle"
    /\ NoSession
    /\ ts = << >>
    /\ ts_date = NoneStr
    /\ ts_utc = NoneStr
    /\ nib_string = << >>
    /\ nib_out = NoneStr

\* gsm7_decode(sms.ud()), as parse_pdu_user_data calls it
DecodeGsm7 ==
    /\ pc = "gsm_idle"
    /\ gsm_out' = gsm7_decode(gsm_string)
    /\ pc' = "gsm_done"
    /\ UNCHANGED <<sessionVars, ts, ts_date, ts_utc, nib_string, nib_out,
                   gsm_string>>

NextGsm7 == DecodeGsm7

SpecGsm7 == InitGsm7 /\ [][NextGsm7]_vars

---------------------------------------------------------------------------
(* Claims about the records Parser.parse returns *)

\* The lists of records a session exposes: the list Parser.parse is building
\* and the lists parser_run has stored.
Exposed == {res, acc, scan_result, filter_result}

Records == UNION { {l[k] : k \in 1..Len(l)} : l \in Exposed }

\* The user-data step succeeded for a record: a non-zero user-data-length,
\* all the declared bytes, and a decoded body text.
UserDataPopulated(sms) ==
    /\ sms.tp_udl.some
    /\ sms.tp_udl.val # 0
    /\ sms.tp_ud.some
    /\ Len(sms.tp_ud.val) = sms.tp_udl.val
    /\ sms.msg.some

\* C1: every record in a list returned by Parser.parse is fully populated: in
\* particular its user-data step succeeded (non-zero user-data-length, all
\* declared bytes present, body text decoded).
C1_RecordsFullyPopulated == \A sms \in Records : UserDataPopulated(sms)

\* C2: Parser.parse runs to completion on every image, of every length,
\* without raising an exception.
C2_ParseNeverRaises == pc # "raised"

\* The record the claim C3 expects for the TPDU DeliverText(n) at offset k.
IsTextRecord(sms, k, n) ==
    /\ offset(sms) = k
    /\ status(sms) = S_Received
    /\ source(sms) = S_Number
    /\ message(sms) = Text(n)
    /\ date(sms) # S_Unknown

\* C3: when the image holds one well-formed DELIVER TPDU at offset k (source
\* +33612345678, 7-bit text of n septets, valid timestamp), wherever it lies
\* and also when it ends the image, the DELIVER parser returns a record with
\* offset k, status Received, that source, that text and a local date.
C3_DeliverTextFound ==
    (pc = "done" /\ selected_parsers = <<1>>) =>
        \A k \in 0..MaxPad, n \in 1..MaxSeptets, tl \in 0..MaxTail :
            image_string = Pad(k) \o DeliverText(n) \o Pad(tl)
            => \E j \in 1..Len(scan_result) : IsTextRecord(scan_result[j], k, n)

\* C4: no record whose data-coding-scheme byte has its low 4 bits outside
\* 0..11 is in a list returned by Parser.parse.
C4_NoRecordWithUnknownCoding ==
    \A sms \in Records : sms.tp_dcs.some => data_format(sms) \in 0..11

\* A step signalled failure: ERROR for every parsing function but
\* parse_pdu_user_data, which signals it by False.
StepFailed(func, ret) ==
    IF func = "parse_pdu_user_data" THEN ret = 0 ELSE ret = ERROR

\* The step chain started at offset ii succeeds: before every step a byte is
\* left, and no step signals failure.
RECURSIVE ChainSucceeds(_, _, _, _, _, _)
ChainSucceeds(funcs, img, ii, off, sms, bld) ==
    IF funcs = << >> THEN TRUE
    ELSE IF ii + off >= Len(img) THEN FALSE
    ELSE LET r == CallFunc(Head(funcs), img, ii + off, sms, bld)
         IN  IF StepFailed(Head(funcs), r.ret) THEN FALSE
             ELSE ChainSucceeds(Tail(funcs), img, ii, off + r.ret, r.sms, bld)

\* C5: Parser.parse attempts every offset once, in order: after the offsets
\* below i, its list holds a record with offset j exactly when the step chain
\* started at j succeeds, and the offsets in the list are strictly increasing.
C5_RecordIffChainSucceeds ==
    pc = "parse" =>
        /\ \A j \in 0..(i - 1) :
              (\E k \in 1..Len(res) : offset(res[k]) = j)
              <=> ChainSucceeds(parse_functions(Head(todo)), image_string, j, 0,
                                [new_sms EXCEPT !.bin_offset = Some(j)], build)
        /\ \A k \in 1..(Len(res) - 1) : offset(res[k]) < offset(res[k + 1])

---------------------------------------------------------------------------
(* Claims about the filters *)

\* Filters to try: every list of at most two of the filtering functions.
FilterFunctions == {"filter_lang_latin", "filter_date"}
FilterLists ==
    {<< >>} \cup {<<f>> : f \in FilterFunctions}
    \cup {<<f, g>> : f \in FilterFunctions, g \in FilterFunctions}

AllTrue(func_list, sms) ==
    \A k \in 1..Len(func_list) : CallFilter(func_list[k], sms)

\* The functions of the filters a filter-apply command names, in order.
RECURSIVE FunctionsOf(_)
FunctionsOf(filter_numbers) ==
    IF filter_numbers = << >> THEN << >>
    ELSE (IF Head(filter_numbers) < Len(global_filter_refs)
          THEN At(global_filter_refs, Head(filter_numbers)) ELSE << >>)
         \o FunctionsOf(Tail(filter_numbers))

\* C6: Filter.filter and filter_sms return exactly the subsequence of their
\* input made of the records for which all the predicates are true, in the
\* order of the input.
C6_FilterIsSubsequence ==
    /\ \A fl \in FilterLists :
          /\ Filter_filter(fl, scan_result)
               = SelectSeq(scan_result, LAMBDA sms : AllTrue(fl, sms))
          /\ filter_sms(fl, scan_result)
               = SelectSeq(scan_result, LAMBDA sms : AllTrue(fl, sms))
    /\ (pc = "done" /\ user_args.cmd = "filter-apply")
          => filter_result
               = SelectSeq(scan_result,
                           LAMBDA sms : AllTrue(FunctionsOf(user_args.args), sms))

\* A filter-apply of the registered filter has kept a record and removed one.
C6_Witness ==
    /\ pc = "done"
    /\ user_args = [cmd |-> "filter-apply", args |-> <<0>>]
    /\ filter_result # << >>
    /\ Len(filter_result) < Len(scan_result)

\* C7: filtering is idempotent: F.filter(F.filter(L)) = F.filter(L), so that
\* applying the registered filter twice leaves what applying it once leaves.
C7_FilterIdempotent ==
    /\ \A fl \in FilterLists :
          Filter_filter(fl, Filter_filter(fl, scan_result))
            = Filter_filter(fl, scan_result)
    /\ (pc = "done" /\ user_args = [cmd |-> "filter-apply", args |-> <<0, 0>>])
          => filter_result = Filter_filter(pdu_filter_classical, scan_result)

\* The registered filter has been applied twice in one command, to a list
\* from which it removes two records that follow each other.
C7_Witness ==
    /\ pc = "done"
    /\ user_args = [cmd |-> "filter-apply", args |-> <<0, 0>>]
    /\ filter_result # << >>
    /\ \E k \in 1..(Len(scan_result) - 1) :
          /\ ~ AllTrue(pdu_filter_classical, scan_result[k])
          /\ ~ AllTrue(pdu_filter_classical, scan_result[k + 1])

---------------------------------------------------------------------------
(* Claims about the dates and the row projection *)

\* The 7th byte of a time block as the claims read it: two decimal digits,
\* the low nibble (bit 3 cleared) first, counting quarters of an hour.
ZoneIsDecimal(b) == b \div 16 <= 9
ZoneHours(b) ==
    LET m == b - 8 * ((b \div 8) % 2)
    IN  (10 * (m % 16) + (m \div 16)) \div 4

FieldValue(b) == IntOf(nibble_to_str(<<b>>))

\* Every component of a time block decoded to digits and is in range.
BlockIsValid(block) ==
    /\ \A k \in 1..6 : FieldValue(block[k]).some
    /\ FieldValue(block[3]).val \in 1..31
    /\ FieldValue(block[2]).val \in 1..12
    /\ FieldValue(block[4]).val \in 0..23
    /\ FieldValue(block[5]).val \in 0..59
    /\ FieldValue(block[6]).val \in 0..59
    /\ ZoneIsDecimal(block[7])
    /\ ZoneHours(block[7]) <= 24

\* C8: str_to_date with check returns a date only if every component of the
\* block decoded to digits and is in range, the timezone offset (the count of
\* quarters of byte 7 divided by 4) included.
C8_DateOnlyIfValid ==
    (pc = "ts_done" /\ ts_date.some) => BlockIsValid(ts)

\* C9: the last element of a row is the record's UTC date when one was
\* decoded and "Unknown" when none was; the local-date element is the display
\* date or "Unknown".
C9_RowDates ==
    user_args.cmd = "export-excel" =>
        \A k \in 1..Len(rows) :
            /\ rows[k].date_utc
                 = Some(IF filter_result[k].date_utc_00.some
                        THEN filter_result[k].date_utc_00.val ELSE S_Unknown)
            /\ rows[k].date
                 = (IF filter_result[k].sms_date.some
                    THEN filter_result[k].sms_date.val ELSE S_Unknown)

\* C10: the number element of a row is the source number of a Received
\* record and the destination number of a Sent record ("Unknown" when that
\* number is absent); for another status it is whichever is present.
C10_RowNumber ==
    user_args.cmd = "export-excel" =>
        \A k \in 1..Len(rows) :
            LET sms == filter_result[k]
            IN  rows[k].number
                  = (IF status(sms) = S_Received THEN source(sms)
                     ELSE IF status(sms) = S_Sent THEN dest(sms)
                     ELSE IF Truthy(sms.src) THEN source(sms)
                     ELSE IF Truthy(sms.dst) THEN dest(sms)
                     ELSE S_Unknown)

\* Rows have been exported for a Sent record with a number, a Received
\* record with a number and a record without one.
C10_Witness ==
    /\ user_args.cmd = "export-excel"
    /\ \E k \in 1..Len(rows) :
          rows[k].status = S_Sent /\ rows[k].number = S_Number
    /\ \E k \in 1..Len(rows) :
          rows[k].status = S_Received /\ rows[k].number # S_Unknown
    /\ \E k \in 1..Len(rows) : rows[k].number = S_Unknown

---------------------------------------------------------------------------
(* Claims about nibble_to_str *)

\* The text of a digit string: one character per digit value.
DigitText(d) == [k \in 1..Len(d) |-> DigitChar(d[k])]

\* C11: semi-octet round trip: for every digit string d of even length
\* packed two digits per byte (first digit in the low nibble), and every d of
\* odd length packed the same way with 0xF in the high nibble of the last
\* byte, nibble_to_str in numeric mode returns exactly d, in order and
\* without the filler.
C11_SemiOctetRoundTrip ==
    pc = "nib_done" =>
        \A d \in DigitStrings :
            nib_string = PackDigits(d) => nib_out = Some(DigitText(d))

\* The packing of the 15 digits 123456789012345, filler included, has been
\* decoded.
C11_Witness ==
    /\ pc = "nib_done"
    /\ nib_string = PackDigits(<<1, 2, 3, 4, 5, 6, 7, 8, 9, 0, 1, 2, 3, 4, 5>>)
    /\ nib_string[8] = 245
    /\ nib_out.some
    /\ Len(nib_out.val) = 15

\* The position of the first byte holding a nibble that is no decimal digit,
\* 0 when every nibble is one.
FirstNonDecimal(bytes) ==
    LET bad == {k \in 1..Len(bytes) : bytes[k] % 16 > 9 \/ bytes[k] \div 16 > 9}
    IN  IF bad = {} THEN 0 ELSE CHOOSE k \in bad : \A j \in bad : k <= j

\* The digits of bytes whose nibbles are all decimal, low nibble first.
RECURSIVE NibbleDigits(_)
NibbleDigits(bytes) ==
    IF bytes = << >> THEN << >>
    ELSE <<DigitChar(Head(bytes) % 16), DigitChar(Head(bytes) \div 16)>>
         \o NibbleDigits(Tail(bytes))

\* C13: in numeric mode nibble_to_str stops at the first nibble (low then
\* high nibble of each byte, in byte order) that is no decimal digit: a low
\* nibble gives no value; a high nibble gives the odd-length digit string
\* emitted before it, whatever bytes follow the byte holding it.
C13_StopsAtFirstNonDecimal ==
    pc = "nib_done" =>
        LET k == FirstNonDecimal(nib_string)
        IN  IF k = 0 THEN nib_out = Some(NibbleDigits(nib_string))
            ELSE IF nib_string[k] % 16 > 9 THEN ~ nib_out.some
            ELSE nib_out = Some(NibbleDigits(SubSeq(nib_string, 1, k - 1))
                                \o <<DigitChar(nib_string[k] % 16)>>)

---------------------------------------------------------------------------
(* Claims about gsm7_decode *)

\* C12: for a byte string of length L, gsm7_decode returns exactly
\* floor(8*L/7) code units, the j-th formed by bits 7j..7j+6 of the
\* least-significant-bit-first bit stream; no unit is built from fewer than
\* 7 bits.
C12_Gsm7FloorUnits ==
    pc = "gsm_done" =>
        /\ Len(gsm_out) = (8 * Len(gsm_string)) \div 7
        /\ \A j \in 1..Len(gsm_out) :
              /\ 7 * (j - 1) + 6 < 8 * Len(gsm_string)
              /\ gsm_out[j] = ChunkValue(gsm_string, 7 * (j - 1), 7)

---------------------------------------------------------------------------
(* Claims about the timezone byte and the UTC date *)

\* The signed offset in hours as the claims read byte 7: negative when bit 3
\* is set, the other bits two decimal digits of quarters, divided by 4.
SignedZoneHours(b) ==
    IF ZoneSignNegative(b) THEN 0 - ZoneHours(b) ELSE ZoneHours(b)

\* The text "dd-mm-yy hh:mm:ss" of a date
UtcText(d, mo, y, h, mi, sec) ==
    Dec02(d) \o <<45>> \o Dec02(mo) \o <<45>> \o Dec02(y) \o <<32>>
    \o Dec02(h) \o <<58>> \o Dec02(mi) \o <<58>> \o Dec02(sec)

\* C14: for every value of byte 7 of a time block the sign of the offset is
\* negative iff bit 3 is set, and the other bits, nibbles swapped, are two
\* decimal digits counting quarters of an hour: the offset displayed by
\* str_to_date and subtracted by str_to_date_utc is that count divided by 4
\* (byte 0x21 is 12 quarters, 3 hours).
C14_ZoneIsBCDQuarters ==
    (pc = "ts_done" /\ ZoneIsDecimal(ts[7])) =>
        /\ ts_date.some =>
              LET n == Len(ts_date.val)
              IN  /\ ts_date.val[n - 3]
                       = (IF ZoneSignNegative(ts[7]) THEN 45 ELSE 43)
                  /\ <<ts_date.val[n - 2], ts_date.val[n - 1]>>
                       = Dec02(ZoneHours(ts[7]))
        /\ (BlockIsValid(ts)
             /\ FieldValue(ts[4]).val - SignedZoneHours(ts[7]) \in 0..23)
            => ts_utc = Some(UtcText(FieldValue(ts[3]).val, FieldValue(ts[2]).val,
                                     FieldValue(ts[1]).val,
                                     FieldValue(ts[4]).val - SignedZoneHours(ts[7]),
                                     FieldValue(ts[5]).val, FieldValue(ts[6]).val))

\* The signed offset in hours str_to_date_utc subtracts (line 216).
UtcOffset(b) ==
    ((IF ZoneSignNegative(b) THEN -1 ELSE 1) * ZoneQuarters(b)) \div 4

\* The year of a two-digit year, by the rule of str_to_date (line 166).
FullYear(y) == IF y > 50 THEN 1900 + y ELSE 2000 + y

DaysIn(month, y) ==
    IF month \in {4, 6, 9, 11} THEN 30
    ELSE IF month = 2 THEN (IF IsLeap(FullYear(y)) THEN 29 ELSE 28)
    ELSE 31

\* The local fields of a time block decode to a date of the calendar and a
\* time of the day.
LocalFieldsValid(block) ==
    /\ \A k \in 1..6 : FieldValue(block[k]).some
    /\ FieldValue(block[2]).val \in 1..12
    /\ FieldValue(block[3]).val
          \in 1..DaysIn(FieldValue(block[2]).val, FieldValue(block[1]).val)
    /\ FieldValue(block[4]).val \in 0..23
    /\ FieldValue(block[5]).val \in 0..59
    /\ FieldValue(block[6]).val \in 0..59

\* The calendar date and hour that lie z hours before those of a block, for
\* an hour minus z in -24..47.
HoursBefore(block, z) ==
    LET y  == FieldValue(block[1]).val
        mo == FieldValue(block[2]).val
        d  == FieldValue(block[3]).val
        h  == FieldValue(block[4]).val - z
    IN  IF h < 0 THEN
            IF d > 1 THEN [day |-> d - 1, month |-> mo, year |-> y, hour |-> h + 24]
            ELSE IF mo > 1
                THEN [day |-> DaysIn(mo - 1, y), month |-> mo - 1, year |-> y,
                      hour |-> h + 24]
            ELSE [day |-> 31, month |-> 12, year |-> (y + 99) % 100,
                  hour |-> h + 24]
        ELSE IF h > 23 THEN
            IF d < DaysIn(mo, y)
                THEN [day |-> d + 1, month |-> mo, year |-> y, hour |-> h - 24]
            ELSE IF mo < 12
                THEN [day |-> 1, month |-> mo + 1, year |-> y, hour |-> h - 24]
            ELSE [day |-> 1, month |-> 1, year |-> (y + 1) % 100, hour |-> h - 24]
        ELSE [day |-> d, month |-> mo, year |-> y, hour |-> h]

\* C15: for every time block with valid local fields and signed offset z,
\* str_to_date_utc returns the calendar date and time equal to the local time
\* minus z: below 0 the hour is hour - z + 24 on the previous day, from 24 it
\* is hour - z - 24 on the next day, the day rolling across month ends and
\* year ends in both directions.
C15_UtcRollover ==
    (/\ pc = "ts_done"
     /\ LocalFieldsValid(ts)
     /\ FieldValue(ts[4]).val - UtcOffset(ts[7]) \in (0 - 24)..47) =>
        LET a == HoursBefore(ts, UtcOffset(ts[7]))
        IN  ts_utc = Some(UtcText(a.day, a.month, a.year, a.hour,
                                  FieldValue(ts[5]).val, FieldValue(ts[6]).val))

---------------------------------------------------------------------------
(* Claims about the stored fields of a record *)

\* The length the validity-period block has for a value of the VPF field.
VpLength(f) ==
    IF f = VPF_ENHANCED \/ f = VPF_ABSOLUTE THEN 7
    ELSE IF f = VPF_RELATIVE THEN 1
    ELSE 0

\* C16: the raw time block stored in a record has the declared length: the
\* service-center-timestamp of a DELIVER record is exactly the 7 bytes of the
\* field, and the validity period of a SUBMIT record has length 0, 1 or 7 as
\* the VPF field of the header selects.  It is stated of the records whose
\* every step succeeded, the user-data step included.
C16_TimeBlockLength ==
    \A sms \in Records :
        UserDataPopulated(sms) =>
            /\ status(sms) = S_Received => Len(sms.tp_scts.val) = 7
            /\ status(sms) = S_Sent => Len(sms.tp_vp.val) = VpLength(vpf(sms))

\* The code units 256*b[2j] + b[2j+1] of a byte string, an invalid sequence
\* (a lone surrogate, an odd byte left) replaced by U+FFFD, and no pair taken
\* for a byte-order mark.
BigEndianText(b, bld) == Utf16Units(b, TRUE, bld.wide)

\* C17: for every record whose data-coding-scheme selects 16-bit text, the
\* body text is the sequence of big-endian code units of the user-data bytes,
\* no byte pair consumed or reinterpreted as a byte-order mark, and invalid
\* sequences replaced rather than failing the record.
C17_Ucs2BigEndian ==
    \A sms \in Records :
        (UserDataPopulated(sms) /\ data_format(sms) \in DCS_UCS2) =>
            sms.msg.val = Slice(BigEndianText(sms.tp_ud.val, build), 0,
                                sms.tp_udl.val)

---------------------------------------------------------------------------
(* Claims about the dates of the records *)

OnlyReceived(sms_list) ==
    \A k \in 1..Len(sms_list) : status(sms_list[k]) = S_Received

\* C18: every record produced by the SUBMIT chain (status Sent) has no
\* display date and no UTC date, whatever its validity-period bytes are; so
\* the registered classical filter removes every Sent record from any result
\* list, and its output holds only Received records.
C18_SentHasNoDates ==
    /\ \A sms \in Records :
          status(sms) = S_Sent =>
              /\ ~ sms.sms_date.some
              /\ ~ sms.date_utc_00.some
              /\ date(sms) = S_Unknown
    /\ \A l \in Exposed : OnlyReceived(Filter_filter(pdu_filter_classical, l))
    /\ (pc = "done" /\ user_args = [cmd |-> "filter-apply", args |-> <<0>>])
          => OnlyReceived(filter_result)

\* The classical filter has been applied to a result list holding a Sent
\* record whose validity period is a valid time block and whose text passes
\* the language test: only its missing date removes it.
C18_Witness ==
    /\ pc = "done"
    /\ user_args = [cmd |-> "filter-apply", args |-> <<0>>]
    /\ \E k \in 1..Len(scan_result) :
          /\ status(scan_result[k]) = S_Sent
          /\ vpf(scan_result[k]) = VPF_ENHANCED
          /\ str_to_date(scan_result[k].tp_vp.val).some
          /\ filter_lang_latin(scan_result[k])
    /\ OnlyReceived(filter_result)

\* C19: the two dates decoded from a time block are consistent in presence:
\* a UTC date is present only if the local display date is present (a block
\* the local decode rejects, for its timezone byte for instance, yields no
\* UTC date), and a block whose local date is valid and whose hour minus
\* offset stays within the day has a UTC date too.
C19_UtcOnlyIfLocal ==
    pc = "ts_done" =>
        /\ ts_utc.some => ts_date.some
        /\ (ts_date.some
             /\ FieldValue(ts[4]).val - UtcOffset(ts[7]) \in 0..23)
            => ts_utc.some

=============================================================================
